---- MODULE Spec2Model ----
(***************************************************************************)
(* A model of the Sage AI chat agent (src/src/server.ts): the ChatAgent    *)
(* durable object with its turn orchestration loop (onChatMessage), the    *)
(* reminder callback (onTask), the reminder tool (_scheduleReminder), the  *)
(* search tool (executeSearchWeb) and the history translator               *)
(* (uiMessagesToWorkersAI).                                                *)
(*                                                                         *)
(* One durable object serves one conversation.  JavaScript runs each       *)
(* handler to its next await without interruption, so an action of the     *)
(* model is the code between two suspension points: the inference call     *)
(* (AI.run), a tool's awaited call, and the stream's onFinish callback.    *)
(***************************************************************************)
EXTENDS Integers, Sequences, FiniteSets, TLC

(***************************************************************************)
(* Bounds of the model.                                                    *)
(***************************************************************************)
\* Chat requests (turns) that arrive in one run of Spec.
MaxTurns == 2
\* Chat requests that arrive in one run of GuardSpec.
MaxRequests == 3
\* Tool calls the inference backend requests in one run of PassSpec.
MaxToolCalls == 3
\* Reminders the inference backend requests in one run of Spec.
MaxReminderRequests == 1
\* Tool calls in the tool_calls array of one response.
MaxCallsPerResponse == 2
\* Instants (Date.now(), milliseconds) at which handlers run.
ClockValues == {0, 5000, 10000}
\* Reminder messages, delays and search queries the model may put in arguments.
ReminderMessages == {"standup"}
DelaySeconds == {0, 30}
Queries == {"rust release"}
\* What the search provider may do with a request.
SearchReplies == {"abstract", "nothing", "unavailable"}
\* Messages in a history handed to uiMessagesToWorkersAI run alone.
MaxHistory == 2
\* Text of a response of the inference backend ("" is an empty response).
ResponseTexts == {"", "final answer"}

(***************************************************************************)
(* Program constants.                                                      *)
(***************************************************************************)
\* for (let pass = 0; pass < 3; pass++)
MaxPasses == 3
\* args.delaySeconds || 60
DefaultDelaySeconds == 60
\* now - this._lastRequestTime < 10000
GuardWindowMs == 10000

ApologyText == "I encountered a technical glitch while processing that. Please try again in a moment."
RejectedText == "Error: User rejected this action."

\* The names declared in TOOLS_SCHEMA, and one the schema does not declare.
TOOLS_SCHEMA == {"searchWeb", "getUserInfo", "setReminder"}
UndeclaredTool == "lookupStock"
ToolNames == TOOLS_SCHEMA \cup {UndeclaredTool}

(***************************************************************************)
(* JavaScript values.  An optional field is a set: {} when the property is *)
(* undefined, {v} when it holds v.                                         *)
(***************************************************************************)
\* The value JSON.parse yields for a tool call's arguments: null, or an object
\* with the properties the tools read.
ArgsObject(q, m, d) == [isNull |-> FALSE, query |-> q, message |-> m, delaySeconds |-> d]
EmptyArgs == ArgsObject({}, {}, {})
NullArgs == [isNull |-> TRUE, query |-> {}, message |-> {}, delaySeconds |-> {}]

\* An arguments string as the backend sends it: empty, text that is not JSON,
\* or JSON text for `value`.
ArgString(form, value) == [form |-> form, value |-> value]

\* JSON.parse(tc.function.arguments || "{}") inside try { } catch { }, with
\* args initialised to {}.
ParseArguments(s) ==
    CASE s.form = "empty" -> EmptyArgs
      [] s.form = "malformed" -> EmptyArgs
      [] OTHER -> s.value

\* JSON.stringify of a value: a string that carries the value.
Stringify(v) == [json |-> v]

\* The concatenation of a sequence of sequences.
RECURSIVE Flatten(_)
Flatten(ss) == IF ss = <<>> THEN <<>> ELSE Head(ss) \o Flatten(Tail(ss))

\* How many elements of the sequence s equal x.
Count(s, x) == Cardinality({i \in DOMAIN s : s[i] = x})

\* The sequence s without its first n elements.
DropFirst(s, n) == SubSeq(s, n + 1, Len(s))

(***************************************************************************)
(* uiMessagesToWorkersAI: the history translator.                          *)
(*                                                                         *)
(* A UIMessage is [role, parts].  A text part is [type |-> "text", text];  *)
(* a tool part is [type, toolCallId, toolName, state, input, output] with  *)
(* type "tool-<name>" or "dynamic-tool"; other parts carry only a type.    *)
(* A string built by join("\n") is the sequence of its lines, so the empty *)
(* string is <<"">>.                                                       *)
(***************************************************************************)
\* "tool-*" stands for every type string that starts with "tool-".
ToolPartTypes == {"tool-*", "dynamic-tool"}

\* p.type.startsWith("tool-") || p.type === "dynamic-tool"
IsToolPart(p) == p.type \in ToolPartTypes
IsTextPart(p) == p.type = "text"

\* texts.join("\n")
JoinLines(texts) == IF texts = <<>> THEN <<"">> ELSE texts
\* The truthiness of a string.
Truthy(str) == str # <<"">>

\* msg.parts.filter(text).map(p => p.text).join("\n")
TextParts(msg) ==
    LET ps == SelectSeq(msg.parts, IsTextPart)
    IN JoinLines([i \in DOMAIN ps |-> ps[i].text])

ToolParts(msg) == SelectSeq(msg.parts, IsToolPart)

\* The states whose tool parts are listed in tool_calls.
IsListedCall(t) == t.state \in {"output-available", "rejected", "approval-required"}
\* A test that also answers the calls still waiting for approval.
IsAnsweredWhenListed(t) == t.state \in {"output-available", "rejected", "approval-required"}
\* The states whose tool parts are answered by a tool entry.
IsAnsweredCall(t) == t.state \in {"output-available", "rejected"}

\* t.toolName || "unknown"
NameOrUnknown(t) == IF t.toolName = {} THEN "unknown" ELSE CHOOSE n \in t.toolName : TRUE
\* x ?? {} for an optional value x
OrEmptyArgs(x) == IF x = {} THEN EmptyArgs ELSE CHOOSE v \in x : TRUE

ToolCallOfPart(t) ==
    [id |-> t.toolCallId, type |-> "function",
     function |-> [name |-> NameOrUnknown(t),
                   arguments |-> ArgString("json", OrEmptyArgs(t.input))]]

ToolEntryOfPart(t) ==
    [role |-> "tool", tool_call_id |-> t.toolCallId, name |-> t.toolName,
     content |-> IF t.state = "rejected"
                 THEN [text |-> <<RejectedText>>]
                 ELSE Stringify(OrEmptyArgs(t.output))]

AssistantEntry(text, calls) ==
    IF calls = <<>>
    THEN [role |-> "assistant", content |-> [text |-> text]]
    ELSE [role |-> "assistant", content |-> [text |-> text], tool_calls |-> calls]

\* A loop body that pushes the tool results before the assistant entry.
TranslateMessageResultsFirst(msg) ==
    LET textParts == TextParts(msg)
        calls == SelectSeq(ToolParts(msg), IsListedCall)
        answered == SelectSeq(calls, IsAnsweredCall)
    IN CASE msg.role = "user" ->
              IF Truthy(textParts)
              THEN << [role |-> "user", content |-> [text |-> textParts]] >>
              ELSE <<>>
         [] msg.role = "assistant" ->
              [i \in DOMAIN answered |-> ToolEntryOfPart(answered[i])]
              \o << AssistantEntry(textParts, [i \in DOMAIN calls |-> ToolCallOfPart(calls[i])]) >>
         [] OTHER -> <<>>

\* The entries one message adds to the output: the body of the for loop.
TranslateMessage(msg) ==
    LET textParts == TextParts(msg)
        calls == SelectSeq(ToolParts(msg), IsListedCall)
        answered == SelectSeq(calls, IsAnsweredCall)
    IN CASE msg.role = "user" ->
              IF Truthy(textParts)
              THEN << [role |-> "user", content |-> [text |-> textParts]] >>
              ELSE <<>>
         [] msg.role = "assistant" ->
              << AssistantEntry(textParts, [i \in DOMAIN calls |-> ToolCallOfPart(calls[i])]) >>
              \o [i \in DOMAIN answered |-> ToolEntryOfPart(answered[i])]
         [] OTHER -> <<>>

uiMessagesToWorkersAI(messages) ==
    Flatten([i \in DOMAIN messages |-> TranslateMessage(messages[i])])

(***************************************************************************)
(* The state of the ChatAgent durable object and of its turns.             *)
(***************************************************************************)
VARIABLES
    now,              \* Date.now()
    isGenerating,     \* this._isGenerating
    lastRequestTime,  \* this._lastRequestTime
    reminders,        \* this.state.reminders (absent and [] are both <<>>)
    schedules,        \* the callbacks this.schedule has registered and not yet run
    messages,         \* this.messages, the persisted history
    turns,            \* the invocations of onChatMessage, by order of arrival
    nextCallId,       \* the tool calls the inference backend has requested so far
    fired,            \* history: the strings onTask has pushed, in order
    tMessages,        \* uiMessagesToWorkersAI run alone: its argument,
    tIndex,           \*   the messages its loop has consumed,
    tOut,             \*   its output so far,
    tOrigin           \*   history: the message each entry of the output came from

vars == <<now, isGenerating, lastRequestTime, reminders, schedules, messages,
          turns, nextCallId, fired, tMessages, tIndex, tOut, tOrigin>>
agentVars == <<now, isGenerating, lastRequestTime, reminders, schedules, messages,
               turns, nextCallId, fired>>
translatorVars == <<tMessages, tIndex, tOut, tOrigin>>

TurnIds == 1..(IF MaxTurns > MaxRequests THEN MaxTurns ELSE MaxRequests)

\* The durable state of the conversation.
DurableState == [reminders |-> reminders, schedules |-> schedules, messages |-> messages]

\* A turn that has not arrived.
IdleTurn ==
    [pc |-> "idle", outcome |-> "none", pass |-> 0, calledTools |-> {},
     stepMessages |-> <<>>, filteredCalls |-> <<>>, index |-> 0, events |-> <<>>,
     warned |-> FALSE,
     \* history: the calls of AI.run so far, the call that rejected (0: none),
     \* the durable state and the length of fired when the turn started
     inferCalls |-> 0, failedAt |-> 0,
     stateBefore |-> [reminders |-> <<>>, schedules |-> <<>>, messages |-> <<>>],
     firedBefore |-> 0]

(***************************************************************************)
(* The events a turn writes to its stream.                                 *)
(***************************************************************************)
\* A triple whose events take the time apart, each its own id.
TextEventsOwnIds(prefix, at, text) ==
    << [type |-> "text-start", id |-> <<prefix, at>>],
       [type |-> "text-delta", delta |-> text, id |-> <<prefix, at + 1>>],
       [type |-> "text-end", id |-> <<prefix, at + 2>>] >>

TextEvents(prefix, at, text) ==
    LET msgId == <<prefix, at>>
    IN << [type |-> "text-start", id |-> msgId],
          [type |-> "text-delta", delta |-> text, id |-> msgId],
          [type |-> "text-end", id |-> msgId] >>

ToolInputEvent(tc, args) ==
    [type |-> "tool-input-available", toolCallId |-> tc.id,
     toolName |-> tc.function.name, input |-> args]

ToolOutputEvent(tc, output) ==
    [type |-> "tool-output-available", toolCallId |-> tc.id, output |-> output]

FetchingOutput == [status |-> "fetching"]
UnknownToolOutput == [error |-> "Unknown tool"]

(***************************************************************************)
(* The tools.                                                              *)
(***************************************************************************)
\* x || "" for an optional string x
OrEmptyString(x) == IF x = {} THEN "" ELSE CHOOSE v \in x : TRUE

\* executeSearchWeb: the JSON text it returns for what the provider did.
executeSearchWeb(query, reply) ==
    CASE reply = "abstract" ->
             Stringify([summary |-> [kind |-> "abstract"], results |-> <<>>])
      [] reply = "nothing" ->
             Stringify([summary |-> [kind |-> "No results found for", query |-> query]])
      [] OTHER ->
             Stringify([error |-> "Search temporarily unavailable."])

\* JSON.parse of a string Stringify built.
ParseJson(s) == s.json

\* args.delaySeconds || 60
DelayOrDefault(d) ==
    IF d = {} \/ d = {0} THEN DefaultDelaySeconds ELSE CHOOSE v \in d : TRUE

\* The callback this.schedule(delaySeconds, "onTask", { message }) registers.
ScheduleEntry(message, delaySeconds, at) ==
    [when |-> delaySeconds, callback |-> "onTask", payload |-> [message |-> message],
     scheduledAt |-> at]

\* _scheduleReminder: the record it returns.
ScheduleConfirmation(message, delaySeconds) ==
    [scheduled |-> TRUE, message |-> message, inSeconds |-> delaySeconds]

\* The string onTask pushes.
ReminderString(message, at) == [reminder |-> message, triggeredAt |-> at]

(***************************************************************************)
(* What the inference backend may answer.                                  *)
(***************************************************************************)
ToolCallInputs ==
    {[name |-> "searchWeb", arguments |-> ArgString("json", ArgsObject({q}, {}, {}))] :
        q \in Queries}
    \cup {[name |-> "searchWeb", arguments |-> ArgString("json", NullArgs)]}
    \cup {[name |-> "getUserInfo", arguments |-> ArgString("empty", EmptyArgs)]}
    \cup {[name |-> "setReminder", arguments |-> ArgString("json", ArgsObject({}, {m}, {d}))] :
        m \in ReminderMessages, d \in DelaySeconds}
    \cup {[name |-> "setReminder", arguments |-> ArgString("malformed", EmptyArgs)]}
    \cup {[name |-> UndeclaredTool, arguments |-> ArgString("json", EmptyArgs)]}

\* The tool_calls array of n requests, the backend having issued `issued` ids.
ToolCallsOf(inputs, issued) ==
    [i \in DOMAIN inputs |->
        [id |-> <<"call", issued + i>>, type |-> "function",
         function |-> [name |-> inputs[i].name, arguments |-> inputs[i].arguments]]]

\* A response: response is "" when absent, tool_calls is <<>> when absent.
Responses(issued) ==
    {[response |-> text, tool_calls |-> <<>>] : text \in ResponseTexts}
    \cup {[response |-> "", tool_calls |-> ToolCallsOf(inputs, issued)] :
            inputs \in UNION {[1..k -> ToolCallInputs] :
                k \in 1..(IF MaxToolCalls - issued < MaxCallsPerResponse
                          THEN MaxToolCalls - issued ELSE MaxCallsPerResponse)}}

(***************************************************************************)
(* onChatMessage: the pass loop of execute, as updates of a turn's record. *)
(***************************************************************************)
\* The loop condition off by one.
LoopContinuesOnePassMore(pass) == pass <= MaxPasses

\* pass < 3
LoopContinues(pass) == pass < MaxPasses

\* execute returns (break, return, the loop's end): finally runs.
Leave(r, outcome) == [r EXCEPT !.pc = "executed", !.outcome = outcome]

\* The top of the for loop: another inference call, or the loop's end.
EnterPass(r) ==
    IF LoopContinues(r.pass)
    THEN [r EXCEPT !.pc = "infer", !.inferCalls = @ + 1]
    ELSE Leave(r, "Done")

\* A catch block that swallows the error and writes nothing.
CatchSilently(r, at) == Leave(r, "Failed")

\* catch (err): the apology.
Catch(r, at) ==
    Leave([r EXCEPT !.events = @ \o TextEvents("error", at, ApologyText)], "Failed")

\* A filter that lets every call through.
FilterNothing(tool_calls, calledTools) == tool_calls

\* tool_calls.filter(tc => !calledTools.has(tc.function.name))
FilterCalls(tool_calls, calledTools) ==
    LET NotCalled(tc) == tc.function.name \notin calledTools
    IN SelectSeq(tool_calls, NotCalled)

\* A text branch that writes the text and goes on to the next pass.
HandleResponseTextContinues(r, resp, at) ==
    IF resp.tool_calls # <<>>
    THEN LET filteredCalls == FilterCalls(resp.tool_calls, r.calledTools)
         IN IF filteredCalls = <<>>
            THEN Leave(r, "Done")
            ELSE [r EXCEPT !.stepMessages =
                               Append(@, [role |-> "assistant",
                                          content |-> [text |-> <<resp.response>>],
                                          tool_calls |-> filteredCalls]),
                           !.filteredCalls = filteredCalls,
                           !.index = 1,
                           !.pc = "tools"]
    ELSE IF resp.response # ""
         THEN EnterPass([r EXCEPT !.events = @ \o TextEvents("msg", at, resp.response),
                                  !.pass = @ + 1])
         ELSE Leave(r, "Done")

\* The code from the response of AI.run to the first tool call or to the end.
HandleResponse(r, resp, at) ==
    IF resp.tool_calls # <<>>
    THEN LET filteredCalls == FilterCalls(resp.tool_calls, r.calledTools)
         IN IF filteredCalls = <<>>
            THEN Leave(r, "Done")
            ELSE [r EXCEPT !.stepMessages =
                               Append(@, [role |-> "assistant",
                                          content |-> [text |-> <<resp.response>>],
                                          tool_calls |-> filteredCalls]),
                           !.filteredCalls = filteredCalls,
                           !.index = 1,
                           !.pc = "tools"]
    ELSE IF resp.response # ""
         THEN Leave([r EXCEPT !.events = @ \o TextEvents("msg", at, resp.response)], "Done")
         ELSE Leave(r, "Done")

\* The end of one iteration of for (const tc of filteredCalls): the next call,
\* or continue to the next pass.
NextCall(r) ==
    IF r.index < Len(r.filteredCalls)
    THEN [r EXCEPT !.index = @ + 1]
    ELSE EnterPass([r EXCEPT !.pass = @ + 1, !.index = 0, !.filteredCalls = <<>>])

\* An output that is written to the stream and not fed back to the model.
RecordOutputToStreamOnly(r, tc, output) ==
    NextCall([r EXCEPT !.events = Append(@, ToolOutputEvent(tc, output))])

\* A server-side tool has returned output: the output event and the tool entry.
RecordOutput(r, tc, output) ==
    NextCall([r EXCEPT !.events = Append(@, ToolOutputEvent(tc, output)),
                       !.stepMessages =
                           Append(@, [role |-> "tool", tool_call_id |-> tc.id,
                                      name |-> {tc.function.name},
                                      content |-> Stringify(output)])])

\* One iteration of the loop over filteredCalls.  reply is what the search
\* provider does, scheduled whether this.schedule resolves.
ExecuteCall(r, tc, reply, scheduled, at) ==
    LET toolName == tc.function.name
        args == ParseArguments(tc.function.arguments)
        r1 == [r EXCEPT !.calledTools = @ \cup {toolName},
                        !.events = Append(@, ToolInputEvent(tc, args))]
    IN CASE toolName = "getUserInfo" ->
              Leave([r1 EXCEPT !.events = Append(@, ToolOutputEvent(tc, FetchingOutput))],
                    "AwaitingClient")
         [] toolName = "searchWeb" ->
              IF args.isNull
              THEN Catch(r1, at)
              ELSE RecordOutput(r1, tc,
                       ParseJson(executeSearchWeb(OrEmptyString(args.query), reply)))
         [] toolName = "setReminder" ->
              IF args.isNull \/ ~scheduled
              THEN Catch(r1, at)
              ELSE RecordOutput(r1, tc,
                       ScheduleConfirmation(args.message, DelayOrDefault(args.delaySeconds)))
         [] OTHER -> RecordOutput(r1, tc, UnknownToolOutput)

\* What an iteration adds to the callbacks this.schedule has registered.
ScheduledBy(tc, scheduled, at) ==
    LET args == ParseArguments(tc.function.arguments)
    IN IF tc.function.name = "setReminder" /\ ~args.isNull /\ scheduled
       THEN << ScheduleEntry(args.message, DelayOrDefault(args.delaySeconds), at) >>
       ELSE <<>>

\* A turn start that reads the reminders and leaves them in the state.
DrainNothing(pendingReminders) == pendingReminders

\* The reminders left in the state once a turn has read them.
DrainReminders(pendingReminders) ==
    IF Len(pendingReminders) > 0 THEN <<>> ELSE pendingReminders

\* The system entry of the request: the persona and the pending reminders.
SystemMessage(pendingReminders) ==
    [role |-> "system",
     content |-> [persona |-> "Sage AI", reminders |-> pendingReminders]]

\* The assistant message the stream's onFinish hands to saveMessages: a text
\* part per text-delta, a tool part per tool-input-available.
ResponseMessage(events) ==
    LET IsPartEvent(e) == e.type \in {"text-delta", "tool-input-available"}
        es == SelectSeq(events, IsPartEvent)
        OutputOf(id) ==
            {e.output : e \in {events[i] : i \in {j \in DOMAIN events :
                                   events[j].type = "tool-output-available"
                                   /\ events[j].toolCallId = id}}}
        PartOf(e) ==
            IF e.type = "text-delta"
            THEN [type |-> "text", text |-> e.delta]
            ELSE [type |-> "tool-*", toolCallId |-> e.toolCallId, toolName |-> {},
                  state |-> IF OutputOf(e.toolCallId) = {}
                            THEN "input-available" ELSE "output-available",
                  input |-> {e.input}, output |-> OutputOf(e.toolCallId)]
    IN [role |-> "assistant", parts |-> [i \in DOMAIN es |-> PartOf(es[i])]]

(***************************************************************************)
(* The actions of the agent.                                               *)
(***************************************************************************)
\* The callbacks a conversation may have registered before the object was last
\* evicted: the platform keeps them, and the messages and the state, across
\* evictions and constructs the object anew.
PersistedSchedules ==
    {<<>>} \cup {<<ScheduleEntry({m}, 30, 0)>> : m \in ReminderMessages}

\* The state of the translator while the agent runs.
TranslatorIdle ==
    /\ tMessages = <<>>
    /\ tIndex = 0
    /\ tOut = <<>>
    /\ tOrigin = <<>>

\* The reminders that may have fired, and not been read, before the eviction.
PersistedReminders ==
    {<<>>} \cup {<<ReminderString({m}, 0)>> : m \in ReminderMessages}

\* The object of a conversation that has scheduled reminders, constructed anew.
InitAgent ==
    /\ now = 0
    /\ isGenerating = FALSE
    /\ lastRequestTime = 0
    /\ reminders \in PersistedReminders
    /\ schedules \in PersistedSchedules
    /\ messages = <<>>
    /\ turns = [t \in TurnIds |-> IdleTurn]
    /\ nextCallId = 0
    /\ fired = reminders
    /\ TranslatorIdle

\* The object of a new conversation.
Init ==
    /\ now = 0
    /\ isGenerating = FALSE
    /\ lastRequestTime = 0
    /\ reminders = <<>>
    /\ schedules = <<>>
    /\ messages = <<>>
    /\ turns = [t \in TurnIds |-> IdleTurn]
    /\ nextCallId = 0
    /\ fired = <<>>
    /\ TranslatorIdle

\* Time passes.
Tick ==
    /\ \E c \in ClockValues : c > now /\ now' = c
    /\ UNCHANGED <<isGenerating, lastRequestTime, reminders, schedules, messages,
                   turns, nextCallId, fired>>
    /\ UNCHANGED translatorVars

\* finally { this._isGenerating = false } once execute has returned.
FlagAfter(r) == IF r.pc = "executed" THEN FALSE ELSE isGenerating

\* A chat request arrives: onChatMessage up to the first await of execute.
StartTurn(t) ==
    /\ turns[t].pc = "idle"
    /\ \A u \in TurnIds : u < t => turns[u].pc # "idle"
    /\ LET pendingReminders == reminders
           allMessages == <<SystemMessage(pendingReminders)>>
                          \o uiMessagesToWorkersAI(messages)
           r == [IdleTurn EXCEPT
                    !.warned = isGenerating /\ now - lastRequestTime < GuardWindowMs,
                    !.stateBefore = DurableState,
                    !.firedBefore = Len(fired),
                    !.stepMessages = allMessages]
       IN /\ turns' = [turns EXCEPT ![t] = EnterPass(r)]
          /\ reminders' = DrainReminders(pendingReminders)
    /\ isGenerating' = TRUE
    /\ lastRequestTime' = now
    /\ UNCHANGED <<now, schedules, messages, nextCallId, fired>>
    /\ UNCHANGED translatorVars

\* AI.run rejects: the catch block and finally.
InferenceFails(t) ==
    /\ turns[t].pc = "infer"
    /\ turns' = [turns EXCEPT
                    ![t] = Catch([turns[t] EXCEPT !.failedAt = turns[t].inferCalls], now)]
    /\ isGenerating' = FALSE
    /\ UNCHANGED <<now, lastRequestTime, reminders, schedules, messages, nextCallId, fired>>
    /\ UNCHANGED translatorVars

\* AI.run resolves with resp.
InferenceReturns(t, resp) ==
    /\ turns[t].pc = "infer"
    /\ LET r == HandleResponse(turns[t], resp, now)
       IN /\ turns' = [turns EXCEPT ![t] = r]
          /\ isGenerating' = FlagAfter(r)
    /\ nextCallId' = nextCallId + Len(resp.tool_calls)
    /\ UNCHANGED <<now, lastRequestTime, reminders, schedules, messages, fired>>
    /\ UNCHANGED translatorVars

\* One surviving call is executed.
ExecuteTool(t, reply, scheduled) ==
    /\ turns[t].pc = "tools"
    /\ LET tc == turns[t].filteredCalls[turns[t].index]
           r == ExecuteCall(turns[t], tc, reply, scheduled, now)
       IN /\ turns' = [turns EXCEPT ![t] = r]
          /\ isGenerating' = FlagAfter(r)
          /\ schedules' = schedules \o ScheduledBy(tc, scheduled, now)
    /\ UNCHANGED <<now, lastRequestTime, reminders, messages, nextCallId, fired>>
    /\ UNCHANGED translatorVars

\* The stream has finished: onFinish.
OnFinish(t) ==
    /\ turns[t].pc = "executed"
    /\ turns' = [turns EXCEPT ![t].pc = "finished"]
    /\ isGenerating' = FALSE
    /\ messages' = Append(messages, ResponseMessage(turns[t].events))
    /\ UNCHANGED <<now, lastRequestTime, reminders, schedules, nextCallId, fired>>
    /\ UNCHANGED translatorVars

\* A callback that writes a list holding only its own string.
onTaskOverwrites(message, at) == << ReminderString(message, at) >>

\* onTask: the reminders after the callback has pushed its string.
onTask(message, at) == Append(reminders, ReminderString(message, at))

\* The platform runs a registered callback, once, at a moment of its choosing.
FireReminder(i) ==
    /\ i \in DOMAIN schedules
    /\ reminders' = onTask(schedules[i].payload.message, now)
    /\ fired' = Append(fired, ReminderString(schedules[i].payload.message, now))
    /\ schedules' = SubSeq(schedules, 1, i - 1) \o SubSeq(schedules, i + 1, Len(schedules))
    /\ UNCHANGED <<now, isGenerating, lastRequestTime, messages, turns, nextCallId>>
    /\ UNCHANGED translatorVars

(***************************************************************************)
(* Spec: the agent of one conversation.  Requests arrive at any moment,    *)
(* also while earlier turns are suspended, and registered callbacks run    *)
(* at any moment.  The backend answers with text, with nothing, or with    *)
(* one request for a reminder.                                             *)
(***************************************************************************)
ReminderRequests ==
    {[name |-> "setReminder", arguments |-> ArgString("json", ArgsObject({}, {m}, {30}))] :
        m \in ReminderMessages}

AgentResponses(issued) ==
    {[response |-> text, tool_calls |-> <<>>] : text \in ResponseTexts}
    \cup {[response |-> "", tool_calls |-> ToolCallsOf(<<c>>, issued)] :
            c \in IF issued < MaxReminderRequests THEN ReminderRequests ELSE {}}

Next ==
    \/ \E t \in 1..MaxTurns : StartTurn(t)
    \/ \E t \in 1..MaxTurns : InferenceFails(t)
    \/ \E t \in 1..MaxTurns : \E resp \in AgentResponses(nextCallId) : InferenceReturns(t, resp)
    \/ \E t \in 1..MaxTurns : \E scheduled \in BOOLEAN : ExecuteTool(t, "abstract", scheduled)
    \/ \E t \in 1..MaxTurns : OnFinish(t)
    \/ \E i \in 1..(MaxReminderRequests + 1) : FireReminder(i)

Spec == InitAgent /\ [][Next]_vars

(***************************************************************************)
(* PassSpec: one turn under every response the backend may give on each    *)
(* pass: up to MaxCallsPerResponse requests per response, for every tool   *)
(* and every shape of arguments, every outcome of the search provider and  *)
(* of this.schedule.                                                       *)
(***************************************************************************)
PassTurns == {1}

PassNext ==
    \/ \E t \in PassTurns : StartTurn(t)
    \/ \E t \in PassTurns : InferenceFails(t)
    \/ \E t \in PassTurns : \E resp \in Responses(nextCallId) : InferenceReturns(t, resp)
    \/ \E t \in PassTurns : \E reply \in SearchReplies, scheduled \in BOOLEAN :
           ExecuteTool(t, reply, scheduled)
    \/ \E t \in PassTurns : OnFinish(t)

PassSpec == Init /\ [][PassNext]_vars

(***************************************************************************)
(* GuardSpec: the arrival of requests in time.  Requests arrive at any     *)
(* instant, also while earlier turns are suspended; the backend answers    *)
(* with text or with nothing, or fails.                                    *)
(***************************************************************************)
TextResponses == {[response |-> text, tool_calls |-> <<>>] : text \in ResponseTexts}

GuardNext ==
    \/ Tick
    \/ \E t \in 1..MaxRequests : StartTurn(t)
    \/ \E t \in 1..MaxRequests : InferenceFails(t)
    \/ \E t \in 1..MaxRequests : \E resp \in TextResponses : InferenceReturns(t, resp)
    \/ \E t \in 1..MaxRequests : OnFinish(t)

GuardSpec == Init /\ [][GuardNext]_vars

(***************************************************************************)
(* TranslateSpec: uiMessagesToWorkersAI run alone on every history of up   *)
(* to MaxHistory messages, each of up to two parts; a step is one          *)
(* iteration of its loop over the messages.                                *)
(***************************************************************************)
ToolStates == {"input-available", "approval-required", "output-available", "rejected"}

TextPart(text) == [type |-> "text", text |-> text]
OtherPart == [type |-> "step-start"]
\* A tool part; its id is set when the history is put together.
ToolPart(state) ==
    [type |-> IF state = "rejected" THEN "dynamic-tool" ELSE "tool-*",
     toolCallId |-> <<"call", 0>>,
     toolName |-> IF state = "rejected" THEN {"setReminder"} ELSE {},
     state |-> state,
     input |-> {EmptyArgs},
     output |-> IF state = "output-available" THEN {UnknownToolOutput} ELSE {}]

PartKinds ==
    {TextPart("hello"), TextPart(""), OtherPart} \cup {ToolPart(st) : st \in ToolStates}
PartLists ==
    {<<>>} \cup {<<p>> : p \in PartKinds} \cup {<<p, q>> : p, q \in PartKinds}

MessageShapes ==
    {[role |-> "assistant", parts |-> ps] : ps \in PartLists}
    \cup {[role |-> "user", parts |-> ps] :
            ps \in {<<>>, <<TextPart("hello")>>, <<TextPart("")>>}}
    \cup {[role |-> "system", parts |-> <<TextPart("hello")>>]}

\* The history with the given shapes, every tool part with an id of its own.
WithCallIds(shapes) ==
    [i \in DOMAIN shapes |->
        [role |-> shapes[i].role,
         parts |-> [j \in DOMAIN shapes[i].parts |->
                       IF IsToolPart(shapes[i].parts[j])
                       THEN [shapes[i].parts[j] EXCEPT !.toolCallId = <<"call", 10 * i + j>>]
                       ELSE shapes[i].parts[j]]]]

Histories == {WithCallIds(h) : h \in UNION {[1..k -> MessageShapes] : k \in 0..MaxHistory}}

TranslateInit ==
    /\ now = 0
    /\ isGenerating = FALSE
    /\ lastRequestTime = 0
    /\ reminders = <<>>
    /\ schedules = <<>>
    /\ messages = <<>>
    /\ turns = [t \in TurnIds |-> IdleTurn]
    /\ nextCallId = 0
    /\ fired = <<>>
    /\ tMessages \in Histories
    /\ tIndex = 0
    /\ tOut = <<>>
    /\ tOrigin = <<>>

\* for (const msg of messages): one iteration, out.push for each entry.
TranslateStep ==
    /\ tIndex < Len(tMessages)
    /\ LET entries == TranslateMessage(tMessages[tIndex + 1])
       IN /\ tOut' = tOut \o entries
          /\ tOrigin' = tOrigin \o [k \in DOMAIN entries |-> tIndex + 1]
    /\ tIndex' = tIndex + 1
    /\ UNCHANGED tMessages
    /\ UNCHANGED agentVars

TranslateNext == TranslateStep

TranslateSpec == TranslateInit /\ [][TranslateNext]_vars

(***************************************************************************)
(* Properties.                                                             *)
(***************************************************************************)
\* A turn between its start and its terminal state.
Active(t) == turns[t].pc \in {"infer", "tools"}
\* A turn whose execute has returned.
Terminal(t) == turns[t].pc \in {"executed", "finished"}
Started(t) == turns[t].pc # "idle"

\* The positions of a turn's events of one type.
EventsOfType(t, type) == {i \in DOMAIN turns[t].events : turns[t].events[i].type = type}

\* The reminders in the system prompt of a started turn.
PromptReminders(t) == turns[t].stepMessages[1].content.reminders

\* Every reminder string included in a system prompt so far, with repetitions.
Surfaced ==
    Flatten([t \in TurnIds |-> IF Started(t) THEN PromptReminders(t) ELSE <<>>])

\* The entries a turn has appended to the request it started with.
AppendedEntries(t) ==
    DropFirst(turns[t].stepMessages,
              1 + Len(uiMessagesToWorkersAI(turns[t].stateBefore.messages)))

\* The calls that survived the filter in the passes of a turn, in order.
SurvivingCalls(t) ==
    LET IsAssistant(e) == e.role = "assistant"
        entries == SelectSeq(AppendedEntries(t), IsAssistant)
    IN Flatten([i \in DOMAIN entries |-> entries[i].tool_calls])

\* C1: in every turn, whatever the backend answers on each pass, AI.run is
\* called at most 3 times.
C1_PassBound == \A t \in TurnIds : turns[t].inferCalls <= 3

\* A turn whose three responses all carried surviving tool calls has used up
\* the passes.
C1_Witness ==
    \E t \in TurnIds :
        /\ turns[t].pc = "executed"
        /\ turns[t].pass = 3
        /\ turns[t].inferCalls = 3

\* C2: within one turn no tool name gets more than one tool-input-available
\* event, whether the requests for it come in different passes or in one
\* response.
C2_NoToolExecutedTwice ==
    \A t \in TurnIds : \A name \in ToolNames :
        Cardinality({i \in EventsOfType(t, "tool-input-available") :
                        turns[t].events[i].toolName = name}) <= 1

\* C4: at every moment at most one turn of the conversation is between its
\* start and its terminal state.
C4_SingleWriter == Cardinality({t \in TurnIds : Active(t)}) <= 1

\* The last three events of a turn are one text triple carrying the apology.
EndsWithApology(t) ==
    LET es == turns[t].events
        n == Len(es)
    IN /\ n >= 3
       /\ es[n - 2].type = "text-start"
       /\ es[n - 1].type = "text-delta"
       /\ es[n - 1].delta = ApologyText
       /\ es[n].type = "text-end"
       /\ es[n - 1].id = es[n - 2].id
       /\ es[n].id = es[n - 2].id

\* C5: once AI.run has rejected on some pass of a turn, the turn has ended
\* without another inference call, and its stream holds exactly one text
\* triple, the apology, after every event of the earlier passes.
C5_InferenceFailureApologizesOnce ==
    \A t \in TurnIds :
        turns[t].failedAt > 0 =>
            /\ Terminal(t)
            /\ turns[t].inferCalls = turns[t].failedAt
            /\ EndsWithApology(t)
            /\ Cardinality(EventsOfType(t, "text-start")) = 1
            /\ Cardinality(EventsOfType(t, "text-delta")) = 1
            /\ Cardinality(EventsOfType(t, "text-end")) = 1

\* AI.run rejects on the third pass, after the tools of two passes have run.
C5_Witness ==
    \E t \in TurnIds :
        /\ turns[t].failedAt = 3
        /\ Cardinality(EventsOfType(t, "tool-output-available")) >= 2

\* C6: when AI.run has rejected in a turn and nothing else has touched the
\* conversation since the turn started (no other turn, no callback), the
\* durable state after the turn (pending reminders, registered callbacks,
\* persisted messages) is the durable state from before the turn.
C6_FailureLeavesDurableState ==
    \A t \in TurnIds :
        ( /\ turns[t].failedAt > 0
          /\ Terminal(t)
          /\ \A u \in TurnIds \ {t} : ~Started(u)
          /\ Len(fired) = turns[t].firedBefore )
        => DurableState = turns[t].stateBefore

\* C7: for every surviving call that names getUserInfo, the turn never calls
\* AI.run again, and once it has ended it has ended AwaitingClient with, as
\* its last two events, tool-input-available for that call and
\* tool-output-available with {status: "fetching"} for the same call id.
C7_ClientToolDefers ==
    \A t \in TurnIds :
        LET calls == SurvivingCalls(t)
            es == turns[t].events
            n == Len(es)
        IN \A k \in DOMAIN calls :
              calls[k].function.name = "getUserInfo" =>
                 /\ turns[t].pc # "infer"
                 /\ Terminal(t) =>
                       /\ turns[t].outcome = "AwaitingClient"
                       /\ n >= 2
                       /\ es[n - 1].type = "tool-input-available"
                       /\ es[n - 1].toolCallId = calls[k].id
                       /\ es[n] = ToolOutputEvent(calls[k], FetchingOutput)

\* C8: for every setReminder call with message m and delaySeconds d whose
\* tool has returned, the output is {scheduled: true, message: m,
\* inSeconds: d} and a callback is registered d seconds ahead with message m.
C8_ReminderConfirmed ==
    \A t \in TurnIds :
        LET es == turns[t].events
        IN \A i \in EventsOfType(t, "tool-input-available") :
              ( /\ es[i].toolName = "setReminder"
                /\ es[i].input.message # {}
                /\ es[i].input.delaySeconds # {}
                /\ i < Len(es)
                /\ es[i + 1].type = "tool-output-available" )
              => /\ es[i + 1].toolCallId = es[i].toolCallId
                 /\ \A d \in es[i].input.delaySeconds :
                       /\ es[i + 1].output = ScheduleConfirmation(es[i].input.message, d)
                       /\ \E k \in DOMAIN schedules :
                             /\ schedules[k].when = d
                             /\ schedules[k].payload.message = es[i].input.message

\* The reminder strings there are.
ReminderStrings == {fired[i] : i \in DOMAIN fired}

\* A step in which turn t starts.
Starts(t) == turns[t].pc = "idle" /\ turns'[t].pc # "idle"

\* No reminder string has been in system prompts more often than it was pushed.
SurfacedAtMostOnce ==
    \A s \in ReminderStrings : Count(Surfaced, s) <= Count(fired, s)

\* C3: a turn start puts every reminder that is pending into that turn's
\* system prompt and leaves none pending, and no reminder is in the system
\* prompt of a later turn: over all turns, a string is in system prompts at
\* most as often as it was pushed.
C3_DrainOnce ==
    [][ /\ \A t \in TurnIds :
              Starts(t) => /\ PromptReminders(t)' = reminders
                           /\ reminders' = <<>>
        /\ SurfacedAtMostOnce' ]_vars

\* A turn has started with reminders pending, and a later turn has started.
C3_Witness ==
    \E t, u \in TurnIds :
        /\ t < u
        /\ Started(u)
        /\ PromptReminders(t) # <<>>

\* Every string pushed is pending or has been in exactly one system prompt.
NothingLostOrDuplicated ==
    \A s \in ReminderStrings :
        Count(fired, s) = Count(reminders, s) + Count(Surfaced, s)

\* C9: under every interleaving of onTask with turn starts and turns in
\* flight, each run of onTask adds exactly its one string to the pending
\* reminders, and every string pushed is either still pending or has been
\* in exactly one system prompt.
C9_NoReminderLostOrDuplicated ==
    [][ /\ Len(fired') = Len(fired) + 1 =>
              reminders' = Append(reminders, fired'[Len(fired')])
        /\ NothingLostOrDuplicated' ]_vars

\* onTask has run while a turn was in flight and another reminder was pending,
\* after an earlier reminder had been read by a turn.
C9_Witness ==
    /\ Len(reminders) >= 2
    /\ Surfaced # <<>>
    /\ \E t \in TurnIds : Active(t) /\ turns[t].firedBefore < Len(fired)

\* The ids of the tool parts of a message.
PartIds(msg) == {ToolParts(msg)[j].toolCallId : j \in DOMAIN ToolParts(msg)}

\* Entry e of the output is a rendering of message msg.
ComesFrom(e, msg) ==
    CASE e.role = "tool" -> msg.role = "assistant" /\ e.tool_call_id \in PartIds(msg)
      [] OTHER -> e.role = msg.role /\ e.content = [text |-> TextParts(msg)]

\* The position of the nearest entry before k that is not a tool entry (0: none).
Issuer(k) ==
    LET before == {a \in 1..(k - 1) : tOut[a].role # "tool"}
    IN IF before = {} THEN 0 ELSE CHOOSE a \in before : \A b \in before : b <= a

\* The position in the tool_calls of entry a of the call with the id of entry k
\* (0: none).
CallPosition(a, k) ==
    LET calls == tOut[a].tool_calls
        at == {c \in DOMAIN calls : calls[c].id = tOut[k].tool_call_id}
    IN IF at = {} THEN 0 ELSE CHOOSE c \in at : TRUE

\* C10: the output keeps the order of the source messages; every tool entry
\* carries the id of a call listed in tool_calls of the nearest preceding
\* assistant entry, comes from the same message, has only tool entries of
\* that message between, and follows the order of the calls; an assistant
\* message with one tool part, in state output-available, yields the
\* assistant entry and right after it exactly one tool entry with that id.
C10_TranslationOrder ==
    /\ Len(tOrigin) = Len(tOut)
    /\ \A k \in DOMAIN tOut :
          /\ tOrigin[k] \in 1..tIndex
          /\ ComesFrom(tOut[k], tMessages[tOrigin[k]])
          /\ k > 1 => tOrigin[k - 1] <= tOrigin[k]
    /\ \A k \in DOMAIN tOut :
          tOut[k].role = "tool" =>
             LET a == Issuer(k)
             IN /\ a > 0
                /\ tOut[a].role = "assistant"
                /\ "tool_calls" \in DOMAIN tOut[a]
                /\ CallPosition(a, k) > 0
                /\ tOrigin[a] = tOrigin[k]
                /\ a < k - 1 => CallPosition(a, k - 1) < CallPosition(a, k)
    /\ \A i \in 1..tIndex :
          LET parts == ToolParts(tMessages[i])
              from == {k \in DOMAIN tOut : tOrigin[k] = i}
          IN ( /\ tMessages[i].role = "assistant"
               /\ Len(parts) = 1
               /\ parts[1].state = "output-available" )
             => \E k \in DOMAIN tOut :
                   /\ from = {k, k + 1}
                   /\ tOut[k].role = "assistant"
                   /\ Len(tOut[k].tool_calls) = 1
                   /\ tOut[k].tool_calls[1].id = parts[1].toolCallId
                   /\ tOut[k + 1].role = "tool"
                   /\ tOut[k + 1].tool_call_id = parts[1].toolCallId

\* The whole history is translated, and two assistant messages in a row had
\* answered calls.
C10_Witness ==
    /\ tIndex = Len(tMessages)
    /\ \E k \in DOMAIN tOut :
          /\ k > 2
          /\ tOut[k].role = "tool"
          /\ tOut[k - 1].role = "assistant"
          /\ tOut[k - 2].role = "tool"
          /\ tOrigin[k - 2] < tOrigin[k]

\* The stream of a turn is exactly one text triple carrying text.
IsTextTriple(es, text) ==
    /\ Len(es) = 3
    /\ es[1].type = "text-start"
    /\ es[2].type = "text-delta"
    /\ es[2].delta = text
    /\ es[3].type = "text-end"
    /\ es[2].id = es[1].id
    /\ es[3].id = es[1].id

\* C11: when the first response of a turn has no tool calls and non-empty
\* text, the turn ends Done on that step with a stream that is exactly
\* text-start, text-delta with the whole response, text-end, all of one id,
\* and no tool event; and a turn that has ended makes no further inference
\* call and writes no further event, so the turn used exactly one pass.
C11_TextOnlyTurn ==
    [][ /\ \A t \in TurnIds : \A resp \in TextResponses :
              ( /\ resp.response # ""
                /\ turns[t].inferCalls = 1
                /\ InferenceReturns(t, resp) )
              => /\ IsTextTriple(turns'[t].events, resp.response)
                 /\ turns'[t].outcome = "Done"
                 /\ turns'[t].pc = "executed"
                 /\ turns'[t].inferCalls = 1
        /\ \A t \in TurnIds :
              Terminal(t) => /\ turns'[t].inferCalls = turns[t].inferCalls
                             /\ turns'[t].events = turns[t].events
                             /\ turns'[t].outcome = turns[t].outcome ]_vars

\* A turn has finished after one inference call that answered with text.
C11_Witness ==
    \E t \in TurnIds :
        /\ turns[t].pc = "finished"
        /\ turns[t].inferCalls = 1
        /\ turns[t].outcome = "Done"
        /\ Len(turns[t].events) = 3
        /\ turns[t].events[2].delta = "final answer"

\* The tools that run inside the agent.
ServerTools == {"searchWeb", "setReminder"}

\* C12: in the stream of every turn each tool-input-available event is
\* followed at once by a tool-output-available event of the same toolCallId;
\* and a turn that ended Done after two inference calls, one surviving call of
\* a server tool and a final text holds exactly that pair and then one text
\* triple.
C12_InputThenOutput ==
    \A t \in TurnIds :
        LET es == turns[t].events
        IN /\ \A i \in EventsOfType(t, "tool-input-available") :
                 /\ i < Len(es)
                 /\ es[i + 1].type = "tool-output-available"
                 /\ es[i + 1].toolCallId = es[i].toolCallId
           /\ ( /\ Terminal(t)
                /\ turns[t].outcome = "Done"
                /\ turns[t].inferCalls = 2
                /\ Len(SurvivingCalls(t)) = 1
                /\ SurvivingCalls(t)[1].function.name \in ServerTools
                /\ EventsOfType(t, "text-delta") # {} )
              => /\ Len(es) = 5
                 /\ es[1].type = "tool-input-available"
                 /\ es[1].toolCallId = SurvivingCalls(t)[1].id
                 /\ es[2].type = "tool-output-available"
                 /\ es[2].toolCallId = es[1].toolCallId
                 /\ IsTextTriple(SubSeq(es, 3, 5), es[4].delta)

\* A turn's stream holds the apology.
Apologized(r) == \E i \in DOMAIN r.events :
                    r.events[i].type = "text-delta" /\ r.events[i].delta = ApologyText

\* The step in which turn t runs a server tool that fails: the search
\* provider is unavailable, or this.schedule rejects.
ServerToolFails(t, reply, scheduled) ==
    /\ turns[t].pc = "tools"
    /\ LET tc == turns[t].filteredCalls[turns[t].index]
       IN /\ ~ParseArguments(tc.function.arguments).isNull
          /\ \/ tc.function.name = "searchWeb" /\ reply = "unavailable"
             \/ tc.function.name = "setReminder" /\ ~scheduled
    /\ ExecuteTool(t, reply, scheduled)

\* C13: a step in which a server tool fails does not write the apology and
\* does not end the turn early: it adds to the stream the input event and a
\* tool-output-available event with an error payload, adds to the working
\* messages a tool entry for the call with that payload, and goes on to the
\* next call or the next pass.
C13_ToolFailureNotFatal ==
    [][ \A t \in TurnIds : \A reply \in SearchReplies, scheduled \in BOOLEAN :
            ServerToolFails(t, reply, scheduled) =>
                LET tc == turns[t].filteredCalls[turns[t].index]
                    r == turns'[t]
                    es == r.events
                    ms == r.stepMessages
                IN /\ r.outcome # "Failed"
                   /\ ~Apologized(r)
                   /\ Len(es) = Len(turns[t].events) + 2
                   /\ es[Len(es)].type = "tool-output-available"
                   /\ es[Len(es)].toolCallId = tc.id
                   /\ "error" \in DOMAIN es[Len(es)].output
                   /\ Len(ms) = Len(turns[t].stepMessages) + 1
                   /\ ms[Len(ms)].role = "tool"
                   /\ ms[Len(ms)].tool_call_id = tc.id
                   /\ "error" \in DOMAIN ParseJson(ms[Len(ms)].content)
                   /\ \/ r.pc \in {"tools", "infer"}
                      \/ r.pc = "executed" /\ r.pass = MaxPasses /\ r.outcome = "Done" ]_vars

\* The arguments of a call of a server tool are invalid: the string does not
\* parse to an object, or a field TOOLS_SCHEMA requires is missing.
InvalidParams(tc) ==
    LET s == tc.function.arguments
    IN \/ s.form # "json"
       \/ s.value.isNull
       \/ tc.function.name = "searchWeb" /\ s.value.query = {}
       \/ tc.function.name = "setReminder"
          /\ (s.value.message = {} \/ s.value.delaySeconds = {})

\* C14: a step that runs a server tool with invalid parameters registers no
\* callback, and the tool entry it adds to the working messages for that call
\* carries an error.
C14_InvalidParamsReported ==
    [][ \A t \in TurnIds : \A reply \in SearchReplies, scheduled \in BOOLEAN :
            ( /\ turns[t].pc = "tools"
              /\ turns[t].filteredCalls[turns[t].index].function.name \in ServerTools
              /\ InvalidParams(turns[t].filteredCalls[turns[t].index])
              /\ ExecuteTool(t, reply, scheduled) )
            => LET tc == turns[t].filteredCalls[turns[t].index]
                   ms == turns'[t].stepMessages
               IN /\ schedules' = schedules
                  /\ Len(ms) = Len(turns[t].stepMessages) + 1
                  /\ ms[Len(ms)].role = "tool"
                  /\ ms[Len(ms)].tool_call_id = tc.id
                  /\ "error" \in DOMAIN ParseJson(ms[Len(ms)].content) ]_vars

\* The call ids of a turn's tool-input-available events, in stream order.
InputIds(t) ==
    LET IsInput(e) == e.type = "tool-input-available"
        es == SelectSeq(turns[t].events, IsInput)
    IN [i \in DOMAIN es |-> es[i].toolCallId]

\* The ids of the calls that survived the filter in a turn, in request order.
SurvivingIds(t) == [k \in DOMAIN SurvivingCalls(t) |-> SurvivingCalls(t)[k].id]

\* C15: the surviving calls of every pass are executed in request order: the
\* tool-input-available events of a turn are, in order, for a prefix of its
\* surviving calls, and for all of them once the pass is over (the turn is at
\* an inference call or has ended).
C15_AllSurvivorsExecuted ==
    \A t \in TurnIds :
        /\ Len(InputIds(t)) <= Len(SurvivingIds(t))
        /\ InputIds(t) = SubSeq(SurvivingIds(t), 1, Len(InputIds(t)))
        /\ turns[t].pc \in {"infer", "executed", "finished"} =>
              InputIds(t) = SurvivingIds(t)

\* The tools a turn has invoked: the names in its tool-input-available events.
InvokedTools(t) ==
    {turns[t].events[i].toolName : i \in EventsOfType(t, "tool-input-available")}

\* C16: when AI.run resolves with tool calls that all name tools the turn has
\* already invoked, the turn ends Done on that step, with no event written
\* and no entry appended to the working messages; and a turn that has ended
\* makes no further inference call.
C16_AllFilteredEndsSilently ==
    [][ /\ \A t \in TurnIds : \A resp \in Responses(nextCallId) :
              ( /\ resp.tool_calls # <<>>
                /\ \A k \in DOMAIN resp.tool_calls :
                      resp.tool_calls[k].function.name \in InvokedTools(t)
                /\ InferenceReturns(t, resp) )
              => /\ turns'[t].pc = "executed"
                 /\ turns'[t].outcome = "Done"
                 /\ turns'[t].events = turns[t].events
                 /\ turns'[t].stepMessages = turns[t].stepMessages
                 /\ turns'[t].inferCalls = turns[t].inferCalls
        /\ \A t \in TurnIds :
              turns[t].pc = "executed" => turns'[t].pc \in {"executed", "finished"} ]_vars

\* A turn has ended Done on its second response, whose two calls both named
\* the tool the first pass had invoked.
C16_Witness ==
    \E t \in TurnIds :
        /\ Terminal(t)
        /\ turns[t].outcome = "Done"
        /\ turns[t].inferCalls = 2
        /\ Len(SurvivingCalls(t)) = 1
        /\ nextCallId = 3
        /\ Len(turns[t].events) = 2

\* The arguments string of a call is not the JSON text of an object: it is
\* empty, does not parse, or is the JSON text null.
NotJsonObject(tc) ==
    \/ tc.function.arguments.form # "json"
    \/ tc.function.arguments.value.isNull

\* C17: a step that runs a call whose arguments string is not a well-formed
\* JSON object, the search provider answering and this.schedule resolving,
\* does not fail the turn: it writes tool-input-available with empty input
\* and then tool-output-available for the call, and no apology.
C17_MalformedArgumentsAbsorbed ==
    [][ \A t \in TurnIds : \A reply \in SearchReplies :
            ( /\ turns[t].pc = "tools"
              /\ NotJsonObject(turns[t].filteredCalls[turns[t].index])
              /\ ExecuteTool(t, reply, TRUE) )
            => LET tc == turns[t].filteredCalls[turns[t].index]
                   r == turns'[t]
                   es == r.events
                   n == Len(es)
               IN /\ r.outcome # "Failed"
                  /\ ~Apologized(r)
                  /\ n = Len(turns[t].events) + 2
                  /\ es[n - 1].type = "tool-input-available"
                  /\ es[n - 1].toolCallId = tc.id
                  /\ es[n - 1].input = EmptyArgs
                  /\ es[n].type = "tool-output-available"
                  /\ es[n].toolCallId = tc.id ]_vars

\* C18: a step in which a turn starts sets the guard flag and, when another
\* turn is still executing and the last request arrived less than the window
\* ago, records the overlap warning for the new turn, which is processed all
\* the same; a step in which a turn's execute returns clears the flag.
C18_OverlapDetected ==
    [][ \A t \in TurnIds :
            /\ Starts(t) =>
                  /\ isGenerating'
                  /\ turns'[t].pc = "infer"
                  /\ ( /\ \E u \in TurnIds \ {t} : Active(u)
                       /\ now - lastRequestTime < GuardWindowMs )
                     => turns'[t].warned
            /\ (Active(t) /\ turns'[t].pc = "executed") => ~isGenerating' ]_vars

\* The tool entries that answer the calls, one per call and in call order.
AnswersInOrder(calls, entries) ==
    /\ Len(entries) = Len(calls)
    /\ \A k \in DOMAIN calls :
          /\ entries[k].role = "tool"
          /\ entries[k].tool_call_id = calls[k].id


\* The entries of the working messages from position i on, up to the entry
\* before the next assistant entry.
AnswersOf(ms, i) ==
    LET later == {j \in (i + 1)..Len(ms) : ms[j].role = "assistant"}
        last == IF later = {} THEN Len(ms)
                ELSE (CHOOSE j \in later : \A k \in later : j <= k) - 1
    IN SubSeq(ms, i + 1, last)

\* C19: the working messages only grow, by appending; and at every inference
\* call after the first the entries appended since the turn started are, pass
\* by pass, one assistant entry with the pass's surviving calls followed by
\* one tool entry per call, in call order, each with the id of its call.
C19_WorkingMessagesGrow ==
    [][ \A t \in TurnIds :
            /\ Started(t) =>
                  /\ Len(turns'[t].stepMessages) >= Len(turns[t].stepMessages)
                  /\ SubSeq(turns'[t].stepMessages, 1, Len(turns[t].stepMessages))
                        = turns[t].stepMessages
            /\ turns'[t].pc = "infer" =>
                  LET ms == DropFirst(turns'[t].stepMessages,
                                      1 + Len(uiMessagesToWorkersAI(turns'[t].stateBefore.messages)))
                  IN /\ Len(ms) > 0 => ms[1].role = "assistant"
                     /\ \A i \in DOMAIN ms :
                           ms[i].role = "assistant" =>
                              /\ ms[i].tool_calls # <<>>
                              /\ AnswersInOrder(ms[i].tool_calls, AnswersOf(ms, i))
                     /\ Cardinality({i \in DOMAIN ms : ms[i].role = "assistant"})
                           = turns'[t].inferCalls - 1 ]_vars

\* A turn is at its third inference call after two passes with three
\* surviving calls between them.
C19_Witness ==
    \E t \in TurnIds :
        /\ turns[t].pc = "infer"
        /\ turns[t].inferCalls = 3
        /\ Len(SurvivingCalls(t)) = 3

\* The entries of the output that came from message i, in output order.
EntriesFrom(i) ==
    LET ks == {k \in DOMAIN tOut : tOrigin[k] = i}
        first == CHOOSE k \in ks : \A j \in ks : k <= j
    IN IF ks = {} THEN <<>>
       ELSE [j \in 1..Cardinality(ks) |-> tOut[first + j - 1]]

\* The tool parts of a message whose state is one of states, in part order.
PartsInState(msg, states) ==
    LET InState(p) == p.state \in states
    IN SelectSeq(ToolParts(msg), InState)

\* C20: for every assistant message translated so far, the assistant entry
\* lists in tool_calls exactly the tool parts in state output-available,
\* rejected or approval-required (and has no tool_calls when there is none),
\* and is followed by one tool entry for exactly the parts in state
\* output-available or rejected, a rejected part with the fixed rejection
\* text and the others with their output; parts in any other state have no
\* tool entry.
C20_TranslatedCallStates ==
    \A i \in 1..tIndex :
        tMessages[i].role = "assistant" =>
            LET listed == PartsInState(tMessages[i],
                              {"output-available", "rejected", "approval-required"})
                answered == PartsInState(tMessages[i], {"output-available", "rejected"})
                es == EntriesFrom(i)
            IN /\ Len(es) = 1 + Len(answered)
               /\ es[1].role = "assistant"
               /\ listed = <<>> => "tool_calls" \notin DOMAIN es[1]
               /\ listed # <<>> =>
                     /\ "tool_calls" \in DOMAIN es[1]
                     /\ Len(es[1].tool_calls) = Len(listed)
                     /\ \A k \in DOMAIN listed :
                           es[1].tool_calls[k].id = listed[k].toolCallId
               /\ \A k \in DOMAIN answered :
                     /\ es[1 + k].role = "tool"
                     /\ es[1 + k].tool_call_id = answered[k].toolCallId
                     /\ es[1 + k].content =
                           IF answered[k].state = "rejected"
                           THEN [text |-> <<RejectedText>>]
                           ELSE [json |-> CHOOSE v \in answered[k].output : TRUE]

\* An assistant message with a rejected call and a call waiting for approval
\* has been translated, and one with a call still in state input-available.
C20_Witness ==
    /\ tIndex = Len(tMessages)
    /\ \E i \in 1..tIndex :
          /\ tMessages[i].role = "assistant"
          /\ Len(PartsInState(tMessages[i], {"rejected"})) = 1
          /\ Len(PartsInState(tMessages[i], {"approval-required"})) = 1
    /\ \E i \in 1..tIndex :
          /\ tMessages[i].role = "assistant"
          /\ Len(PartsInState(tMessages[i], {"input-available"})) = 1

\* C21: on every path of every turn the stream holds at most one text-start,
\* one text-delta and one text-end; when it holds a text-start, the three are
\* the last three events of the stream, in that order and with one id, so no
\* event follows text-end.
C21_AtMostOneTextTriple ==
    \A t \in TurnIds :
        LET es == turns[t].events
            n == Len(es)
        IN /\ Cardinality(EventsOfType(t, "text-start")) <= 1
           /\ Cardinality(EventsOfType(t, "text-delta")) <= 1
           /\ Cardinality(EventsOfType(t, "text-end")) <= 1
           /\ ( \/ EventsOfType(t, "text-start") # {}
                \/ EventsOfType(t, "text-delta") # {}
                \/ EventsOfType(t, "text-end") # {} )
              => /\ n >= 3
                 /\ IsTextTriple(SubSeq(es, n - 2, n), es[n - 1].delta)

\* A turn has ended Done with a final text, the last event of its stream,
\* after the tools of two passes.
C21_Witness ==
    \E t \in TurnIds :
        /\ Terminal(t)
        /\ turns[t].outcome = "Done"
        /\ turns[t].inferCalls = 3
        /\ Cardinality(EventsOfType(t, "tool-output-available")) >= 2
        /\ EventsOfType(t, "text-end") = {Len(turns[t].events)}

====
